---- MODULE Spec2Model ----
(***************************************************************************)
(* A model of the AI news monitor: the concurrent RSS fetcher              *)
(* (news_client.py) and the memoised translator (translator.py) that       *)
(* app.py's get_news drives.                                               *)
(*                                                                         *)
(* SpecFetch     one fetch_all_news request: tasks submitted to the pool,  *)
(*               completing in any order, joined in submission order,      *)
(*               sorted and returned.                                      *)
(* SpecTranslate the translator module: its import, and translate_text     *)
(*               calls through the lru_cache, against a backend that goes  *)
(*               down and comes back.                                      *)
(***************************************************************************)
EXTENDS Integers, Sequences, FiniteSets, TLC

VARIABLES
    \* ---- news_client.fetch_all_news ----
    world,        \* what each feed URL would return to feedparser.parse
    fpc,          \* position of fetch_all_news: idle, running, done, raised
    futures,      \* feeds_to_fetch, in submission order
    taskOut,      \* result of each finished fetch_feed task
    completion,   \* the order in which the tasks finished
    joined,       \* how many futures the join loop has consumed
    all_items,    \* the merged list
    \* ---- translator ----
    app,          \* importing, running, crashed
    backendUp,    \* whether the translation service answers
    cache,        \* the lru_cache of translate_text, least recent first
    last,         \* what the latest translate_text call did
    accessOrder,  \* every text ever passed, by latest access (history)
    passthru      \* texts whose cached value comes from a failed backend call (history)

fetchVars == <<world, fpc, futures, taskOut, completion, joined, all_items>>
transVars == <<app, backendUp, cache, last, accessOrder, passthru>>
vars == <<world, fpc, futures, taskOut, completion, joined, all_items,
          app, backendUp, cache, last, accessOrder, passthru>>

Min2(a, b) == IF a <= b THEN a ELSE b

(***************************************************************************)
(* news_client.py                                                          *)
(***************************************************************************)

\* Longest feed enumerated entry by entry.
MaxEntries == 2
\* Latest publish time enumerated; times are 0..MaxTime.
MaxTime == 2
\* feed.entries[:20]
FeedCap == 20
\* datetime.min, the key an item without a date sorts by.
DatetimeMin == 0

\* The registry, in dict order (its first two entries).
NEWS_FEEDS == <<"TechCrunch AI", "The Verge AI">>

FeedNames == {NEWS_FEEDS[i] : i \in 1..Len(NEWS_FEEDS)}

RegistryIndex(name) == CHOOSE i \in 1..Len(NEWS_FEEDS) : NEWS_FEEDS[i] = name

\* 'AI' in name: true of every key of the registry.
NameHasAI(name) == name \in {"TechCrunch AI", "The Verge AI", "Wired AI",
                             "Ars Technica AI", "VentureBeat AI", "MIT Tech Review AI"}

Times == DatetimeMin..MaxTime

\* A struct_time field of a raw entry: missing, one datetime() rejects, or a time.
Absent == <<>>
Invalid == <<"invalid", 0>>
Stamp(t) == <<"ok", t>>

\* The raw entries feeds are built from. malformed: extracting the entry's
\* fields raises. kw: title and summary contain an AI keyword.
RawEntries ==
    {[malformed |-> FALSE, kw |-> TRUE, published_parsed |-> Stamp(t), updated_parsed |-> Absent]
        : t \in Times}
    \cup {[malformed |-> FALSE, kw |-> FALSE, published_parsed |-> Absent, updated_parsed |-> Absent],
          [malformed |-> FALSE, kw |-> TRUE, published_parsed |-> Invalid, updated_parsed |-> Stamp(1)],
          [malformed |-> TRUE, kw |-> TRUE, published_parsed |-> Stamp(MaxTime), updated_parsed |-> Absent]}

RECURSIVE SeqsUpTo(_, _)
SeqsUpTo(S, n) ==
    IF n = 0 THEN {<<>>}
    ELSE LET shorter == SeqsUpTo(S, n - 1)
         IN shorter \cup {Append(s, e) : s \in {q \in shorter : Len(q) = n - 1}, e \in S}

\* A feed longer than the cap: 20 dated entries and a 21st that is malformed.
LongFeed ==
    [i \in 1..(FeedCap + 1) |->
        IF i <= FeedCap
        THEN [malformed |-> FALSE, kw |-> TRUE, published_parsed |-> Stamp(1), updated_parsed |-> Absent]
        ELSE [malformed |-> TRUE, kw |-> TRUE, published_parsed |-> Stamp(MaxTime), updated_parsed |-> Absent]]

\* What feedparser.parse(url) does: raises, or returns a feed.
FeedResponses ==
    {[error |-> TRUE, entries |-> <<>>]}
    \cup {[error |-> FALSE, entries |-> es] : es \in SeqsUpTo(RawEntries, MaxEntries) \cup {LongFeed}}

NotFetched == [error |-> TRUE, entries |-> <<>>]

\* parse_date: published_parsed, else updated_parsed, else None (<<>>).
parse_date(entry) ==
    IF entry.published_parsed # Absent /\ entry.published_parsed # Invalid
    THEN <<entry.published_parsed[2]>>
    ELSE IF entry.updated_parsed # Absent /\ entry.updated_parsed # Invalid
         THEN <<entry.updated_parsed[2]>>
         ELSE <<>>

is_ai_related(entry) == entry.kw

NewsItem(name, i, entry) == [source |-> name, idx |-> i, published |-> parse_date(entry)]

\* The loop of fetch_feed over feed.entries[:20], from entry i on.
RECURSIVE FeedLoop(_, _, _, _)
FeedLoop(name, entries, i, items) ==
    IF i > Len(entries) THEN [exc |-> FALSE, items |-> items]
    ELSE LET entry == entries[i]
         IN IF entry.malformed THEN [exc |-> TRUE, items |-> <<>>]
            ELSE IF ~NameHasAI(name) /\ ~is_ai_related(entry)
                 THEN FeedLoop(name, entries, i + 1, items)
                 ELSE FeedLoop(name, entries, i + 1, Append(items, NewsItem(name, i, entry)))

\* The body of fetch_feed's try block.
FeedBody(name, response) ==
    IF response.error THEN [exc |-> TRUE, items |-> <<>>]
    ELSE FeedLoop(name, SubSeq(response.entries, 1, Min2(Len(response.entries), FeedCap)), 1, <<>>)

\* A fetch_feed whose try has no except: the exception leaves the task.
FetchFeedUncaught(name, response) == FeedBody(name, response)

\* fetch_feed: except Exception: return [].
fetch_feed(name, response) ==
    LET r == FeedBody(name, response)
    IN IF r.exc THEN [exc |-> FALSE, items |-> <<>>] ELSE r

\* lambda x: x.published or datetime.min
SortKey(item) == IF item.published = <<>> THEN DatetimeMin ELSE item.published[1]

\* Place item behind every element whose key is at least its own.
RECURSIVE InsertDesc(_, _)
InsertDesc(sorted, item) ==
    IF sorted = <<>> THEN <<item>>
    ELSE IF SortKey(Head(sorted)) >= SortKey(item)
         THEN <<Head(sorted)>> \o InsertDesc(Tail(sorted), item)
         ELSE <<item>> \o sorted

\* list.sort(key=..., reverse=True): descending, equal keys keep their order.
RECURSIVE SortDesc(_)
SortDesc(items) ==
    IF items = <<>> THEN <<>>
    ELSE InsertDesc(SortDesc(SubSeq(items, 1, Len(items) - 1)), items[Len(items)])

\* feeds_to_fetch: the registry entries selected by sources, in registry order.
FeedsToFetch(sources) ==
    SelectSeq(NEWS_FEEDS, LAMBDA k : sources = {} \/ k \in sources)

\* A join that takes the results as the tasks finish.
JoinOrderAsCompleted(submitted, finished) == finished

\* for future in futures: the results are taken in submission order.
JoinOrder(submitted, finished) == submitted

\* The sources argument: None or empty (all), some registry names, an unknown name.
SourceArgs == SUBSET (FeedNames \cup {"Unknown"})

FetchInit ==
    /\ world = [n \in FeedNames |-> NotFetched]
    /\ fpc = "idle"
    /\ futures = <<>>
    /\ taskOut = [n \in FeedNames |-> [exc |-> FALSE, items |-> <<>>]]
    /\ completion = <<>>
    /\ joined = 0
    /\ all_items = <<>>

\* fetch_all_news(sources): select the feeds and submit one task per feed.
\* The pool has max_workers=6 and the registry six feeds: no task waits for a
\* worker.
Submit ==
    /\ fpc = "idle"
    /\ \E sources \in SourceArgs :
        LET sel == FeedsToFetch(sources)
            selected == {sel[i] : i \in 1..Len(sel)}
        IN /\ futures' = sel
           /\ \E w \in [selected -> FeedResponses] :
                world' = [n \in FeedNames |-> IF n \in selected THEN w[n] ELSE NotFetched]
    /\ fpc' = "running"
    /\ UNCHANGED <<taskOut, completion, joined, all_items>>

Pending(n) == \A i \in 1..Len(completion) : completion[i] # n

\* A pool worker finishes the fetch_feed task of one feed.
TaskDone ==
    /\ fpc = "running"
    /\ \E i \in 1..Len(futures) :
        /\ Pending(futures[i])
        /\ taskOut' = [taskOut EXCEPT ![futures[i]] = fetch_feed(futures[i], world[futures[i]])]
        /\ completion' = Append(completion, futures[i])
    /\ UNCHANGED <<world, fpc, futures, joined, all_items>>

\* all_items.extend(future.result()) for the next future, once it is done;
\* result() re-raises what the task raised.
Join ==
    /\ fpc = "running"
    /\ joined < Len(futures)
    /\ LET order == JoinOrder(futures, completion)
       IN /\ joined < Len(order)
          /\ ~Pending(order[joined + 1])
          /\ IF taskOut[order[joined + 1]].exc
             THEN fpc' = "raised" /\ UNCHANGED <<joined, all_items>>
             ELSE /\ all_items' = all_items \o taskOut[order[joined + 1]].items
                  /\ joined' = joined + 1
                  /\ fpc' = fpc
    /\ UNCHANGED <<world, futures, taskOut, completion>>

\* all_items.sort(...); return all_items
SortAndReturn ==
    /\ fpc = "running"
    /\ joined = Len(futures)
    /\ all_items' = SortDesc(all_items)
    /\ fpc' = "done"
    /\ UNCHANGED <<world, futures, taskOut, completion, joined>>

(***************************************************************************)
(* translator.py                                                           *)
(***************************************************************************)

\* @lru_cache(maxsize=500)
maxsize == 500
\* Distinct texts translated by earlier requests before the calls enumerated here.
NFill == 497
\* Length of the long text.
LongLen == 4501

Whitespace == {" ", "\t", "\n"}

\* not text or not text.strip()
IsBlank(text) == \A i \in 1..Len(text) : text[i] \in Whitespace

Letters == <<"A", "B", "C", "D", "E", "F", "G", "H", "I", "J", "K", "L", "M",
            "N", "O", "P", "Q", "R", "S", "T", "U", "V", "W", "X", "Y", "Z">>

\* The i-th title of the earlier requests: two capital letters.
Filler(i) == <<Letters[((i \div 26) % 26) + 1], Letters[(i % 26) + 1]>>

Hi == <<"h", "i">>
Blank == <<" ">>
Empty == <<>>
LongText == <<"l">> \o [i \in 1..(LongLen - 1) |-> "a"]

\* The texts get_news passes to translate_text: titles and summaries.
Texts == {Empty, Hi, LongText}

\* result.text of translator.translate(text, dest='ja')
BackendTranslate(text) == <<"j">> \o text

\* What the backend does in one call of the body. d: translator.detect answers
\* a language or raises. t: translator.translate answers or raises (none: the
\* body does not get that far).
BackendOutcomes(up) ==
    IF up
    THEN {[d |-> "ja", t |-> "none"], [d |-> "other", t |-> "ok"], [d |-> "other", t |-> "raise"],
          [d |-> "raise", t |-> "ok"], [d |-> "raise", t |-> "raise"]}
    ELSE {[d |-> "raise", t |-> "raise"]}

\* The backend is not reached: a blank text, or a cached one.
NoBackend == {[d |-> "none", t |-> "none"]}

\* The body of translate_text on one text, the backend answering d then t.
translate_body(text, d, t) ==
    IF IsBlank(text)
    THEN [result |-> text, detect |-> 0, translate |-> 0, sent |-> <<>>,
          detectFailed |-> FALSE, translateFailed |-> FALSE, raised |-> FALSE]
    ELSE IF d = "ja"
         THEN [result |-> text, detect |-> 1, translate |-> 0, sent |-> <<>>,
               detectFailed |-> FALSE, translateFailed |-> FALSE, raised |-> FALSE]
         ELSE IF t = "ok"
              THEN [result |-> BackendTranslate(text), detect |-> 1, translate |-> 1,
                    sent |-> <<text>>, detectFailed |-> (d = "raise"),
                    translateFailed |-> FALSE, raised |-> FALSE]
              ELSE [result |-> text, detect |-> 1, translate |-> 1,
                    sent |-> <<text>>, detectFailed |-> (d = "raise"),
                    translateFailed |-> TRUE, raised |-> FALSE]

CacheValue(c, k) == c[CHOOSE i \in 1..Len(c) : c[i].key = k].val

\* A wrapper that never finds the text: translate_text without the decorator.
NeverCached(c, k) == FALSE

\* lru_cache: the key is in the cache.
IsCached(c, k) == \E i \in 1..Len(c) : c[i].key = k

\* A hit that leaves the entry where it was (first in, first out).
LeaveInPlace(c, k) == c

\* lru_cache on a hit: the entry becomes the most recently used.
Touch(c, k) ==
    SelectSeq(c, LAMBDA e : e.key # k) \o SelectSeq(c, LAMBDA e : e.key = k)

\* lru_cache on a miss: the result is stored; a full cache drops its oldest entry.
Store(c, k, v) ==
    IF Len(c) >= maxsize
    THEN Append(Tail(c), [key |-> k, val |-> v])
    ELSE Append(c, [key |-> k, val |-> v])

\* A wrapper that stores a result only when the backend call succeeded.
StoreSuccessOnly(c, k, r) == IF r.translateFailed THEN c ELSE Store(c, k, r.result)

\* The decorator wraps the whole function: whatever it returns is stored.
StoreResult(c, k, r) == Store(c, k, r.result)

Without(order, text) == SelectSeq(order, LAMBDA x : x # text)

\* The text is among the maxsize most recently passed ones.
Resident(order, text) ==
    \E i \in 1..Len(order) : i > Len(order) - maxsize /\ order[i] = text

NoCall ==
    [called |-> FALSE, text |-> <<>>, result |-> <<>>, hit |-> FALSE, detect |-> 0,
     translate |-> 0, sent |-> <<>>, detectFailed |-> FALSE, translateFailed |-> FALSE,
     raised |-> FALSE, up |-> FALSE, stale |-> FALSE,
     again |-> FALSE, prevUp |-> FALSE, prevDetect |-> 0, prevTranslate |-> 0,
     sameResult |-> TRUE]

\* History: how the call just made relates to the call before it. again: both
\* passed the same text.
Successive(prev, text, result) ==
    IF prev.called /\ prev.text = text
    THEN [again |-> TRUE, prevUp |-> prev.up, prevDetect |-> prev.detect,
          prevTranslate |-> prev.translate, sameResult |-> (prev.result = result)]
    ELSE [again |-> FALSE, prevUp |-> FALSE, prevDetect |-> 0, prevTranslate |-> 0,
          sameResult |-> TRUE]

\* One call translate_text(text) through the lru_cache wrapper, from state st.
CallStep(st, text, up, d, t) ==
    LET order == Append(Without(st.accessOrder, text), text)
    IN IF IsCached(st.cache, text)
       THEN [cache |-> Touch(st.cache, text),
             last |-> [called |-> TRUE, text |-> text, result |-> CacheValue(st.cache, text),
                       hit |-> TRUE, detect |-> 0, translate |-> 0, sent |-> <<>>,
                       detectFailed |-> FALSE, translateFailed |-> FALSE, raised |-> FALSE,
                       up |-> up, stale |-> (text \in st.passthru)]
                      @@ Successive(st.last, text, CacheValue(st.cache, text)),
             accessOrder |-> order,
             passthru |-> {x \in st.passthru : Resident(order, x)}]
       ELSE LET r == translate_body(text, d, t)
            IN [cache |-> StoreResult(st.cache, text, r),
                last |-> [called |-> TRUE, text |-> text, result |-> r.result,
                          hit |-> FALSE, detect |-> r.detect, translate |-> r.translate,
                          sent |-> r.sent, detectFailed |-> r.detectFailed,
                          translateFailed |-> r.translateFailed, raised |-> r.raised,
                          up |-> up, stale |-> (text \in st.passthru)]
                         @@ Successive(st.last, text, r.result),
                accessOrder |-> order,
                passthru |-> {x \in (IF r.translateFailed THEN st.passthru \cup {text}
                                      ELSE st.passthru \ {text}) : Resident(order, x)}]

\* The texts of the earlier requests, in call order.
EarlierTexts == <<Hi, Blank>> \o [i \in 1..NFill |-> Filler(i)]

IsPrefix(p, q) == Len(p) <= Len(q) /\ p = SubSeq(q, 1, Len(p))

\* The earlier requests are under way: their first filler text has been
\* translated and their last has not.
Warming ==
    /\ IsPrefix(accessOrder, EarlierTexts)
    /\ Len(accessOrder) > 2
    /\ Len(accessOrder) < Len(EarlierTexts)

TransInit ==
    /\ app = "importing"
    /\ backendUp = TRUE
    /\ cache = <<>>
    /\ last = NoCall
    /\ accessOrder = <<>>
    /\ passthru = {}

\* import translator: "from googletrans import Translator" and
\* "translator = Translator()" run unguarded at module level.
ImportTranslator ==
    /\ app = "importing"
    /\ \E ok \in BOOLEAN : app' = IF ok THEN "running" ELSE "crashed"
    /\ UNCHANGED <<backendUp, cache, last, accessOrder, passthru>>

\* get_news: translate_text(n.title), translate_text(n.summary). Every call
\* site passes the text alone, so the cache key is the text. The calls
\* enumerated here come before or after the earlier requests, not among them.
Call ==
    /\ app = "running"
    /\ ~Warming
    /\ \E text \in Texts :
       \E o \in (IF IsBlank(text) \/ IsCached(cache, text)
                 THEN NoBackend ELSE BackendOutcomes(backendUp)) :
        LET st == CallStep([cache |-> cache, last |-> last, accessOrder |-> accessOrder,
                            passthru |-> passthru], text, backendUp, o.d, o.t)
        IN /\ cache' = st.cache
           /\ last' = st.last
           /\ accessOrder' = st.accessOrder
           /\ passthru' = st.passthru
    /\ UNCHANGED <<app, backendUp>>

\* An earlier request: get_news translates the next text of EarlierTexts,
\* the backend answering.
CallEarlier ==
    /\ app = "running"
    /\ backendUp
    /\ IsPrefix(accessOrder, EarlierTexts)
    /\ Len(accessOrder) < Len(EarlierTexts)
    /\ LET st == CallStep([cache |-> cache, last |-> last, accessOrder |-> accessOrder,
                           passthru |-> passthru],
                          EarlierTexts[Len(accessOrder) + 1], backendUp, "other", "ok")
       IN /\ cache' = st.cache
          /\ last' = st.last
          /\ accessOrder' = st.accessOrder
          /\ passthru' = st.passthru
    /\ UNCHANGED <<app, backendUp>>

\* The translation service stops answering (network, quota).
BackendFails ==
    /\ app = "running"
    /\ backendUp
    /\ backendUp' = FALSE
    /\ UNCHANGED <<app, cache, last, accessOrder, passthru>>

\* The translation service answers again.
BackendRecovers ==
    /\ app = "running"
    /\ ~backendUp
    /\ backendUp' = TRUE
    /\ UNCHANGED <<app, cache, last, accessOrder, passthru>>

(***************************************************************************)
(* Specifications                                                          *)
(***************************************************************************)

Init == FetchInit /\ TransInit

NextFetch ==
    \/ Submit /\ UNCHANGED transVars
    \/ TaskDone /\ UNCHANGED transVars
    \/ Join /\ UNCHANGED transVars
    \/ SortAndReturn /\ UNCHANGED transVars

NextTranslate ==
    \/ ImportTranslator /\ UNCHANGED fetchVars
    \/ Call /\ UNCHANGED fetchVars
    \/ CallEarlier /\ UNCHANGED fetchVars
    \/ BackendFails /\ UNCHANGED fetchVars
    \/ BackendRecovers /\ UNCHANGED fetchVars

SpecFetch == Init /\ [][NextFetch]_vars

SpecTranslate == Init /\ [][NextTranslate]_vars

(***************************************************************************)
(* Properties of fetch_all_news                                            *)
(***************************************************************************)

Selected == {futures[i] : i \in 1..Len(futures)}

\* The entries of a feed that fetch_feed looks at.
Seen(n) == 1..Min2(Len(world[n].entries), FeedCap)

\* The fetch of a source fails: the retrieval raises, or an entry it reads does.
SourceFailed(n) ==
    world[n].error \/ \E i \in Seen(n) : world[n].entries[i].malformed

Relevant(n, entry) == NameHasAI(n) \/ entry.kw

Returns(n, i) ==
    \E k \in 1..Len(all_items) :
        /\ all_items[k].source = n
        /\ all_items[k].idx = i
        /\ all_items[k].published = parse_date(world[n].entries[i])

\* C1: fetch_all_news never raises; a source whose fetch fails contributes no
\* item; every item of every source that succeeded is returned, once, and
\* nothing else is.
C1_FailedSourceIsolated ==
    /\ fpc # "raised"
    /\ fpc = "done" =>
        /\ \A n \in Selected :
            IF SourceFailed(n)
            THEN \A k \in 1..Len(all_items) : all_items[k].source # n
            ELSE \A i \in Seen(n) : Relevant(n, world[n].entries[i]) => Returns(n, i)
        /\ \A k \in 1..Len(all_items) :
            /\ all_items[k].source \in Selected
            /\ ~SourceFailed(all_items[k].source)
            /\ all_items[k].idx \in Seen(all_items[k].source)
        /\ \A k, l \in 1..Len(all_items) :
            (all_items[k].source = all_items[l].source /\ all_items[k].idx = all_items[l].idx)
                => k = l

\* Both sources selected, the first one's retrieval raised, the second one's
\* two entries are all that is returned.
C1_Witness ==
    /\ fpc = "done"
    /\ Len(futures) = 2
    /\ world[NEWS_FEEDS[1]].error
    /\ ~SourceFailed(NEWS_FEEDS[2])
    /\ Len(world[NEWS_FEEDS[2]].entries) = 2
    /\ Len(all_items) = 2

\* C2: an entry whose processing raises is the only one dropped: every
\* well-formed relevant entry among the first 20 of a retrieved feed is returned.
C2_EntryFailsSoft ==
    fpc = "done" =>
        \A n \in Selected :
            ~world[n].error =>
                \A i \in Seen(n) :
                    (~world[n].entries[i].malformed /\ Relevant(n, world[n].entries[i]))
                        => Returns(n, i)

Dated(item) == item.published # <<>>

\* C3: the returned list is ordered by published descending, and every item
\* without a published date comes after every item that has one.
C3_UndatedLast ==
    fpc = "done" =>
        \A k, l \in 1..Len(all_items) :
            k < l =>
                /\ SortKey(all_items[k]) >= SortKey(all_items[l])
                /\ ~(~Dated(all_items[k]) /\ Dated(all_items[l]))

\* The merged list before the sort is fixed by the feeds alone: the results of
\* the selected feeds, in registry order.
RECURSIVE MergedInRegistryOrder(_)
MergedInRegistryOrder(n) ==
    IF n = 0 THEN <<>>
    ELSE MergedInRegistryOrder(n - 1)
         \o (IF NEWS_FEEDS[n] \in Selected
             THEN fetch_feed(NEWS_FEEDS[n], world[NEWS_FEEDS[n]]).items ELSE <<>>)

Before(a, b) ==
    \/ SortKey(a) > SortKey(b)
    \/ /\ SortKey(a) = SortKey(b)
       /\ \/ RegistryIndex(a.source) < RegistryIndex(b.source)
          \/ a.source = b.source /\ a.idx < b.idx

\* C9: the returned list does not depend on the order in which the tasks
\* finish: it is the sorted merge in registry order, and items with the same
\* sort key stand in registry order, then feed order.
C9_OrderIndependentOfCompletion ==
    fpc = "done" =>
        /\ all_items = SortDesc(MergedInRegistryOrder(Len(NEWS_FEEDS)))
        /\ \A k, l \in 1..Len(all_items) : k < l => Before(all_items[k], all_items[l])

\* The second source finished first, and items of the two sources tie.
C9_Witness ==
    /\ fpc = "done"
    /\ completion = <<NEWS_FEEDS[2], NEWS_FEEDS[1]>>
    /\ \E k, l \in 1..Len(all_items) :
        /\ k < l
        /\ all_items[k].source # all_items[l].source
        /\ Dated(all_items[k])
        /\ all_items[k].published = all_items[l].published

(***************************************************************************)
(* Properties of translate_text                                            *)
(***************************************************************************)

BackendCalls(c) == c.detect + c.translate

\* The latest two calls passed the same non-blank text, the backend available
\* at both.
Repeated == last.again /\ ~IsBlank(last.text) /\ last.prevUp /\ last.up

\* C4 as stated: the two calls return the same and make at most one backend
\* call between them.
C4_AtMostOneBackendCall ==
    Repeated =>
        /\ last.sameResult
        /\ last.prevDetect + last.prevTranslate + BackendCalls(last) <= 1

\* C4 amended: the two calls return the same, the second makes no backend
\* call, and the first makes at most one detect and one translate call.
C4_SecondCallFree ==
    Repeated =>
        /\ last.sameResult
        /\ BackendCalls(last) = 0
        /\ last.prevDetect <= 1
        /\ last.prevTranslate <= 1

\* The first of the two calls translated the text, the second found it cached.
C4_Witness ==
    /\ Repeated
    /\ last.prevDetect = 1
    /\ last.prevTranslate = 1
    /\ last.result = BackendTranslate(last.text)

\* C5: a blank text is returned unchanged with no backend call, and no cache
\* entry is made for it.
C5_BlankNotCached ==
    /\ (last.called /\ IsBlank(last.text)) =>
        (last.result = last.text /\ BackendCalls(last) = 0)
    /\ \A i \in 1..Len(cache) : ~IsBlank(cache[i].key)

\* C6: the translator never stops the application from starting and never
\* raises, and a call during which the backend failed returns its input.
C6_NeverFatal ==
    /\ app # "crashed"
    /\ last.called =>
        /\ ~last.raised
        /\ (last.detectFailed \/ last.translateFailed) => last.result = last.text

\* C7: of a text longer than 4500 characters, the first 4500 are what the
\* backend is given, and the call returns.
C7_Truncated ==
    (last.called /\ Len(last.text) > 4500 /\ last.translate > 0) =>
        /\ last.sent = <<SubSeq(last.text, 1, 4500)>>
        /\ ~last.raised

\* C8: the cache holds at most maxsize entries, one per text, and they are the
\* most recently passed texts in the order they were last passed: the entry
\* dropped next is the one passed longest ago, a hit counting as a pass.
C8_LeastRecentlyUsed ==
    /\ Len(cache) <= maxsize
    /\ Len(cache) = Min2(Len(accessOrder), maxsize)
    /\ \A i \in 1..Len(cache) :
        cache[i].key = accessOrder[Len(accessOrder) - Len(cache) + i]

\* The cache is full, an entry has been dropped, and the latest call was a hit.
C8_Witness ==
    /\ Len(cache) = maxsize
    /\ Len(accessOrder) > maxsize
    /\ last.hit
    /\ IsCached(cache, Hi)
    /\ ~IsCached(cache, Blank)

\* C10: a text whose translation failed stays cached as itself: a later call
\* returns it without a backend call, whatever the backend does by then.
C10_FailureCached ==
    (last.called /\ last.stale) =>
        /\ last.result = last.text
        /\ BackendCalls(last) = 0

\* A call made with the backend up again found the failed text cached.
C10_Witness ==
    /\ last.called
    /\ last.stale
    /\ last.up
    /\ ~IsBlank(last.text)
    /\ last.hit

====
